---- MODULE Spec2Model ----
(***************************************************************************)
(* Audio acquisition: DownloadConfig.to_yt_dlp_opts, the URL patterns of   *)
(* YouTubeDownloader and the download() workflow with its progress relay.  *)
(*                                                                         *)
(* Python's None is the empty tuple <<>> and a value v that may be None is *)
(* <<v>>.  A dict is a function whose DOMAIN is the set of keys present.  *)
(* A string that the code inspects character by character (a URL) is a    *)
(* tuple of one-character strings.                                        *)
(***************************************************************************)
EXTENDS Integers, Sequences, FiniteSets, TLC

VARIABLES
    vUrl,       \* validate_url: the components the url string was built from
    vResult,    \* validate_url: <<>> before the call, <<b>> after it returned b
    config,     \* the DownloadConfig held by the backend (self.config)
    opts,       \* to_yt_dlp_opts: the structures returned so far, newest last
    other,      \* to_yt_dlp_opts: <<>>, or <<c, o>>: a config c differing from
                \*   config in mono / sample_rate only, and what it rendered to
    stored,     \* self._progress_callback
    pc,         \* per thread: the statement its call is at ("idle": not in a call)
    arg,        \* per thread: the call's number and its arguments url, progress_callback
    loc,        \* per thread: the call's locals ydl_opts, info, duration, title, expected_path
    ret,        \* per thread: <<>>, or <<DownloadResult>> once the call returned
    raised,     \* per thread: an exception left download() instead of a result
    trace,      \* per thread: which external steps the call has issued
    files,      \* the output directory: file |-> st_mtime
    clock,      \* source of modification times
    ncalls,     \* how many calls have begun (executed line 78) so far
    lastCb      \* <<>>, or the most recent evaluation of _report_progress

vars == <<vUrl, vResult, config, opts, other, stored, pc, arg, loc, ret,
          raised, trace, files, clock, ncalls, lastCb>>

urlVars == <<vUrl, vResult>>
cfgVars == <<opts, other>>
dlVars  == <<stored, pc, arg, loc, ret, raised, trace, files, clock, ncalls, lastCb>>

None == <<>>
Some(v) == <<v>>
Val(o) == o[1]

\* dict.get(key, default)
Get(d, key, default) == IF key \in DOMAIN d THEN d[key] ELSE default

\* Python truthiness of an optional number / optional string ("" and 0 are falsy)
TruthyNum(o) == o # None /\ Val(o) # 0
TruthyStr(o) == o # None /\ Val(o) # ""

-----------------------------------------------------------------------------
(* URL patterns                                                            *)

Http   == <<"h","t","t","p",":","/","/">>
Https  == <<"h","t","t","p","s",":","/","/">>
Ftp    == <<"f","t","p",":","/","/">>
Www    == <<"w","w","w",".">>
Mobile == <<"m",".">>
WatchHost  == <<"y","o","u","t","u","b","e",".","c","o","m","/","w","a","t","c","h","?","v","=">>
ShortHost  == <<"y","o","u","t","u",".","b","e","/">>
ShortsHost == <<"y","o","u","t","u","b","e",".","c","o","m","/","s","h","o","r","t","s","/">>
LiveHost   == <<"y","o","u","t","u","b","e",".","c","o","m","/","l","i","v","e","/">>
EmbedHost  == <<"y","o","u","t","u","b","e",".","c","o","m","/","e","m","b","e","d","/">>
VimeoHost  == <<"v","i","m","e","o",".","c","o","m","/">>
ExampleHost == <<"e","x","a","m","p","l","e",".","c","o","m">>

\* the identifier length {11} of every pattern
IdLen == 11

\* the character class [a-zA-Z0-9_-]
IdClass ==
    {"a","b","c","d","e","f","g","h","i","j","k","l","m","n","o","p","q","r","s",
     "t","u","v","w","x","y","z","A","B","C","D","E","F","G","H","I","J","K","L",
     "M","N","O","P","Q","R","S","T","U","V","W","X","Y","Z","0","1","2","3","4",
     "5","6","7","8","9","_","-"}

\* (?:https?://)? and (?:www\.)? : the alternatives an optional group can take
SchemeAlts == {<<>>, Http, Https}
WwwAlts    == {<<>>, Www}

\* YOUTUBE_PATTERNS: the literal between the optional groups and the identifier
YOUTUBE_PATTERNS == <<WatchHost, ShortHost, ShortsHost, LiveHost>>

StartsWith(s, pre) == Len(s) >= Len(pre) /\ SubSeq(s, 1, Len(pre)) = pre

\* re.match(pattern, url): the pattern matches a prefix of url
re_match(lit, s) ==
    \E sc \in SchemeAlts, w \in WwwAlts :
        LET pre == sc \o w \o lit IN
            /\ StartsWith(s, pre)
            /\ Len(s) >= Len(pre) + IdLen
            /\ \A k \in 1..IdLen : s[Len(pre) + k] \in IdClass

\* a matcher that demands the whole string (re.fullmatch)
re_fullmatch(lit, s) ==
    \E sc \in SchemeAlts, w \in WwwAlts :
        LET pre == sc \o w \o lit IN
            /\ StartsWith(s, pre)
            /\ Len(s) = Len(pre) + IdLen
            /\ \A k \in 1..IdLen : s[Len(pre) + k] \in IdClass

validate_url_full(s) == \E p \in 1..Len(YOUTUBE_PATTERNS) : re_fullmatch(YOUTUBE_PATTERNS[p], s)

validate_url(s) == \E p \in 1..Len(YOUTUBE_PATTERNS) : re_match(YOUTUBE_PATTERNS[p], s)

\* the url strings the validation is exercised on, by component
IdSample == <<"d","Q","w","4","w","9","W","g","X","c","Q","_","-","0","z">>
Ident(n, bad) == [i \in 1..n |-> IF i = bad THEN "!" ELSE IdSample[i]]
Leads   == {<<>>, <<" ">>, <<"x">>}
Schemes == {<<>>, Http, Https, Ftp}
Subs    == {<<>>, Www, Mobile}
Hosts   == {WatchHost, ShortHost, ShortsHost, LiveHost, EmbedHost, VimeoHost, ExampleHost}
IdLens  == {0, IdLen - 1, IdLen, IdLen + 1}
Tails   == {<<>>, <<"&","t","=","1">>, <<"!">>, <<"/","x">>}
UrlParts ==
    {[lead |-> l, scheme |-> sc, sub |-> w, host |-> h, ident |-> Ident(n, b), tail |-> t] :
        l \in Leads, sc \in Schemes, w \in Subs, h \in Hosts,
        n \in IdLens, b \in {0, 1, IdLen}, t \in Tails}
Flat(u) == u.lead \o u.scheme \o u.sub \o u.host \o u.ident \o u.tail


\* validate_url(url), lines 49-51
ValidateUrl ==
    /\ vResult = None
    /\ vResult' = Some(validate_url(Flat(vUrl)))
    /\ UNCHANGED vUrl

-----------------------------------------------------------------------------
(* DownloadConfig                                                          *)

\* how many structures one run renders from the same config
MaxRenders == 2

Formats == {"wav", "mp3", "m4a", "opus"}

\* the dataclass fields; sample_rate and max_duration are None or positive
Configs ==
    [audio_format : Formats,
     audio_quality : {128, 192},
     sample_rate : {None, Some(16000), Some(44100)},
     mono : BOOLEAN,
     max_duration : {None, Some(1)},
     filename_template : {"{title}", "%(id)s"},
     embed_metadata : BOOLEAN,
     cookies_from_browser : {None, Some("chrome")}]

PRESET_TRANSCRIPTION ==
    [audio_format |-> "wav", audio_quality |-> 192, sample_rate |-> Some(16000),
     mono |-> TRUE, max_duration |-> None, filename_template |-> "{title}",
     embed_metadata |-> TRUE, cookies_from_browser |-> None]

NoKeys == <<>>

\* the same list with the two appends exchanged
PostprocessorArgsSwapped(c) ==
    (IF c.mono THEN <<"-ac", "1">> ELSE <<>>)
    \o (IF TruthyNum(c.sample_rate) THEN <<"-ar", ToString(Val(c.sample_rate))>> ELSE <<>>)

\* lines 39-45: "-ar <rate>" is appended before "-ac 1"
PostprocessorArgs(c) ==
    (IF TruthyNum(c.sample_rate) THEN <<"-ar", ToString(Val(c.sample_rate))>> ELSE <<>>)
    \o (IF c.mono THEN <<"-ac", "1">> ELSE <<>>)

\* DownloadConfig.to_yt_dlp_opts, lines 37-74: a fresh dict on every call
to_yt_dlp_opts(c) ==
    [format |-> "bestaudio/best",
     postprocessors |->
        <<[key |-> "FFmpegExtractAudio", preferredcodec |-> c.audio_format,
           preferredquality |-> ToString(c.audio_quality)]>>
        \o (IF c.embed_metadata THEN <<[key |-> "FFmpegMetadata"]>> ELSE <<>>),
     outtmpl |-> c.filename_template \o ".%(ext)s",
     quiet |-> TRUE,
     no_warnings |-> TRUE,
     http_headers |-> ("User-Agent" :> "Mozilla/5.0 ... Chrome/120.0.0.0 Safari/537.36")]
    @@ (IF TruthyStr(c.cookies_from_browser)
        THEN "cookiesfrombrowser" :> <<Val(c.cookies_from_browser)>> ELSE NoKeys)
    @@ (IF PostprocessorArgs(c) # <<>>
        THEN "postprocessor_args" :> [ffmpeg |-> PostprocessorArgs(c)] ELSE NoKeys)

\* youtube.py lines 94-95 applied to a structure to_yt_dlp_opts returned
Rooted(o, dir) ==
    [o EXCEPT !.outtmpl = dir \o "/" \o o.outtmpl] @@ ("progress_hooks" :> <<"_progress_hook">>)

OutputDirs == {"data", "out"}

\* one call of to_yt_dlp_opts on the held config; the structure is kept both
\* as returned and as its holder has it now
Render ==
    /\ Len(opts) < MaxRenders
    /\ opts' = Append(opts, [fresh |-> to_yt_dlp_opts(config), now |-> to_yt_dlp_opts(config),
                             afterRewrite |-> \E i \in 1..Len(opts) : opts[i].now # opts[i].fresh])
    /\ UNCHANGED <<config, other>>

\* download() rewrites 'outtmpl' and adds 'progress_hooks' in a returned structure
RewriteReturned ==
    \E i \in 1..Len(opts), dir \in OutputDirs :
        /\ opts[i].now = opts[i].fresh
        /\ opts' = [opts EXCEPT ![i].now = Rooted(opts[i].fresh, dir)]
        /\ UNCHANGED <<config, other>>

\* a second config that differs from the held one in mono / sample_rate only
RenderOther ==
    \E m \in BOOLEAN, r \in {None, Some(16000), Some(44100)} :
        /\ other = None
        /\ LET c == [config EXCEPT !.mono = m, !.sample_rate = r]
           IN other' = <<c, to_yt_dlp_opts(c)>>
        /\ UNCHANGED <<config, opts>>

-----------------------------------------------------------------------------
(* YouTubeDownloader.download                                              *)

\* calls made on the one backend instance in a run
MaxCalls == 2
\* the probe reports a duration in 0..MaxDur
MaxDur == 2
\* a 'downloading' event reports downloaded_bytes in 0..MaxBytes
MaxBytes == 3
\* the total (or estimated total) a 'downloading' event reports, when it has one
TotalBytes == 2

\* the caller's threads; each makes one call at a time
Threads == {1, 2}

\* the configs the backend is constructed with (line 42)
DlConfigs ==
    {[PRESET_TRANSCRIPTION EXCEPT !.audio_format = f, !.max_duration = m] :
        f \in {"wav", "mp3"}, m \in {None, Some(1)}}

OutputDir == "data"
Exts == {"wav", "mp3"}

UrlWatch == Https \o Www \o WatchHost \o Ident(IdLen, 0)
UrlVimeo == Https \o VimeoHost \o <<"1","2","3","4","5","6">>
DlUrls == {UrlWatch, UrlVimeo}

\* the info dict of a probe: a key is absent (<<>>) or present with a value
MkInfo(t, d, e) ==
    [k \in (IF t = <<>> THEN {} ELSE {"title"}) \cup (IF d = <<>> THEN {} ELSE {"duration"})
           \cup {"description"} |->
        IF k = "title" THEN t[1] ELSE IF k = "duration" THEN d[1] ELSE e]

Infos ==
    {MkInfo(t, d, e) :
        t \in {<<>>, <<Some("t")>>},
        d \in {<<>>, <<None>>} \cup {<<Some(n)>> : n \in 0..MaxDur},
        e \in {None, Some("d")}}

\* how extract_info(url, download=False) can end without an info dict
ProbeFailures == {"DownloadError", "Exception", "None"}

\* a 'downloading' event of the external tool
Events ==
    [total_bytes : {None, Some(TotalBytes)},
     total_bytes_estimate : {<<>>, <<None>>, <<Some(TotalBytes)>>},
     downloaded_bytes : 0..MaxBytes]

\* the DownloadResult of base.py lines 11-21 (metadata and downloaded_at left out)
Failure(url, msg) ==
    [success |-> FALSE, file_path |-> None, title |-> None, duration |-> None,
     source_url |-> Some(url), error_message |-> Some(msg)]

Success(url, path, title, duration) ==
    [success |-> TRUE, file_path |-> Some(path), title |-> title, duration |-> duration,
     source_url |-> Some(url), error_message |-> None]

InvalidUrl(url)      == [kind |-> "Invalid YouTube URL", url |-> url]
NoInfo               == [kind |-> "Failed to extract video info"]
TooLong(actual, lim) == [kind |-> "Video duration exceeds limit", actual |-> actual, limit |-> lim]
NotFound             == [kind |-> "Downloaded file not found"]
DownloadErr          == [kind |-> "Download error"]
Unexpected           == [kind |-> "Unexpected error"]

\* a percentage as an exact fraction num/den
Pct(n) == [num |-> n, den |-> 1]

\* line 178: 5 + (downloaded / total) * 85
HookProgress(downloaded, total) == [num |-> 5 * total + 85 * downloaded, den |-> total]

\* line 175: d.get("total_bytes") or d.get("total_bytes_estimate", 0)
HookTotal(ev) ==
    IF TruthyNum(ev.total_bytes) THEN ev.total_bytes
    ELSE IF ev.total_bytes_estimate = <<>> THEN Some(0) ELSE ev.total_bytes_estimate[1]

\* line 78 as it would be if it kept the old reference when no callback is passed
StoreCallbackIfGiven(cb) == IF cb = None THEN stored ELSE cb

\* line 78: self._progress_callback = progress_callback
StoreCallback(cb) == cb

\* line 81 as it would be with the validation left out
UrlRejectedNever(url) == FALSE

\* line 81: not self.validate_url(url)
UrlRejected(url) == ~validate_url(url)

\* line 112 as it would be with the comparison reversed
DurationGateReversed(maxd, dur) ==
    IF ~TruthyNum(maxd) THEN "pass"
    ELSE IF dur = None THEN "error"
    ELSE IF Val(dur) < Val(maxd) THEN "reject" ELSE "pass"

\* line 112: self.config.max_duration and duration > self.config.max_duration;
\* comparing None with a number is a TypeError
DurationGate(maxd, dur) ==
    IF ~TruthyNum(maxd) THEN "pass"
    ELSE IF dur = None THEN "error"
    ELSE IF Val(dur) > Val(maxd) THEN "reject" ELSE "pass"

\* ydl.prepare_filename(info).rsplit(".", 1)[0]: the file name the template
\* gives.  The external tool fills %(field)s only, so the default template
\* "{title}" names the same file for every video.
PrepareStem(info) ==
    IF config.filename_template = "{title}" THEN "{title}"
    ELSE IF "title" \in DOMAIN info /\ info["title"] # None THEN Val(info["title"]) ELSE "NA"

Path(f) == [stem |-> f.stem, ext |-> f.ext]
Exists(fs, path) == \E f \in fs : Path(f) = path

\* output_dir.glob("*") : every file of the directory
GlobAll(fs, fmt) == fs

\* lines 130-132: output_dir.glob(f"*.{audio_format}")
GlobMatches(fs, fmt) == {f \in fs : f.ext = fmt}

\* line 134: max(possible_files, key=st_mtime)
Newest(fs) == {f \in fs : \A g \in fs : g.mtime <= f.mtime}

\* the external tool writes (or rewrites) a file of the output directory
Written(fs, path, t) == {f \in fs : Path(f) # path} \cup {[stem |-> path.stem, ext |-> path.ext, mtime |-> t]}

NoLocals ==
    [ydl_opts |-> None, info |-> None, duration |-> None, title |-> None,
     expected |-> None, expected_path |-> None, rep |-> None,
     via |-> "", seen |-> {}]
NoTrace == [probed |-> FALSE, info |-> FALSE, gate |-> FALSE, started |-> FALSE, wrote |-> FALSE]
NoArgs == [id |-> 0, url |-> <<>>, cb |-> None]

\* line 43, and an output directory that is empty or holds one earlier file
InitDl ==
    /\ stored = None
    /\ pc = [t \in Threads |-> "idle"]
    /\ arg = [t \in Threads |-> NoArgs]
    /\ loc = [t \in Threads |-> NoLocals]
    /\ ret = [t \in Threads |-> None]
    /\ raised = [t \in Threads |-> FALSE]
    /\ trace = [t \in Threads |-> NoTrace]
    /\ files \in {{}} \cup {{[stem |-> "other", ext |-> e, mtime |-> 0]} : e \in Exts}
    /\ clock = 1
    /\ ncalls = 0
    /\ lastCb = None

rest == <<vUrl, vResult, opts, other, config>>

Goto(t, label) == pc' = [pc EXCEPT ![t] = label]
Return(t, r) == ret' = [ret EXCEPT ![t] = Some(r)] /\ Goto(t, "idle")
Fail(t, msg) == Return(t, Failure(arg[t].url, msg))
\* the statement after this one is self._report_progress(pct, status)
Report(pct, src, next) == [pct |-> pct, src |-> src, next |-> next]
\* one evaluation of _report_progress by the call of thread t: the callback the
\* call was given, the one that was invoked (None: none), and how many calls
\* had begun by then
Reported(t, to) ==
    [by |-> arg[t].id, own |-> arg[t].cb, to |-> to, pct |-> Val(loc[t].rep).pct,
     src |-> Val(loc[t].rep).src, newest |-> ncalls]

\* line 78: thread t begins a call and stores its callback on the instance.
\* The call's locals are new; the callback is none or a callable of this call.
Enter(t, urls) ==
    \E url \in urls, cb \in {None, Some(ncalls + 1)} :
        /\ pc[t] = "idle"
        /\ ncalls < MaxCalls
        /\ ncalls' = ncalls + 1
        /\ stored' = StoreCallback(cb)
        /\ arg' = [arg EXCEPT ![t] = [id |-> ncalls + 1, url |-> url, cb |-> cb]]
        /\ loc' = [loc EXCEPT ![t] = NoLocals]
        /\ ret' = [ret EXCEPT ![t] = None]
        /\ raised' = [raised EXCEPT ![t] = FALSE]
        /\ trace' = [trace EXCEPT ![t] = NoTrace]
        /\ lastCb' = None
        /\ Goto(t, "validate")
        /\ UNCHANGED <<files, clock, rest>>

\* lines 81-86
Validate(t) ==
    /\ pc[t] = "validate"
    /\ IF UrlRejected(arg[t].url)
       THEN Fail(t, InvalidUrl(arg[t].url))
       ELSE Goto(t, "mkdir") /\ UNCHANGED ret
    /\ UNCHANGED <<stored, arg, loc, raised, trace, files, clock, ncalls, lastCb, rest>>

\* lines 89-90, outside the try block: mkdir succeeds, or raises OSError
\* (the path is a file, or a parent is not writable) and the exception
\* leaves download()
Mkdir(t) ==
    \E ok \in BOOLEAN :
        /\ pc[t] = "mkdir"
        /\ IF ok
           THEN Goto(t, "build") /\ UNCHANGED raised
           ELSE Goto(t, "idle") /\ raised' = [raised EXCEPT ![t] = TRUE]
        /\ UNCHANGED <<stored, arg, loc, ret, trace, files, clock, ncalls, lastCb, rest>>

\* lines 93-95
BuildOpts(t) ==
    /\ pc[t] = "build"
    /\ loc' = [loc EXCEPT ![t].ydl_opts = Some(Rooted(to_yt_dlp_opts(config), OutputDir))]
    /\ Goto(t, "open")
    /\ UNCHANGED <<stored, arg, ret, raised, trace, files, clock, ncalls, lastCb, rest>>

\* line 98, inside the try block: YoutubeDL(ydl_opts) is constructed or raises;
\* line 100 is next
OpenYdl(t) ==
    \E ok \in BOOLEAN :
        /\ pc[t] = "open"
        /\ IF ok
           THEN /\ loc' = [loc EXCEPT ![t].rep = Some(Report(Pct(0), "extract", "probe"))]
                /\ Goto(t, "report")
                /\ UNCHANGED ret
           ELSE Fail(t, Unexpected) /\ UNCHANGED loc
        /\ UNCHANGED <<stored, arg, raised, trace, files, clock, ncalls, lastCb, rest>>

\* line 188: if self._progress_callback
ReportCheck(t) ==
    /\ pc[t] = "report"
    /\ IF stored = None
       THEN /\ lastCb' = Some(Reported(t, None))
            /\ Goto(t, Val(loc[t].rep).next)
            /\ loc' = [loc EXCEPT ![t].rep = None]
       ELSE Goto(t, "invoke") /\ UNCHANGED <<lastCb, loc>>
    /\ UNCHANGED <<stored, arg, ret, raised, trace, files, clock, ncalls, rest>>

\* line 189: self._progress_callback(progress, status) reads the attribute again.
\* Calling None is a TypeError; the caller's callback returns or raises.  Either
\* exception is caught at line 165.
Invoke(t) ==
    \E ok \in BOOLEAN :
        /\ pc[t] = "invoke"
        /\ lastCb' = Some(Reported(t, stored))
        /\ loc' = [loc EXCEPT ![t].rep = None]
        /\ IF stored # None /\ ok
           THEN Goto(t, Val(loc[t].rep).next) /\ UNCHANGED ret
           ELSE Fail(t, Unexpected)
        /\ UNCHANGED <<stored, arg, raised, trace, files, clock, ncalls, rest>>

\* line 101: the probe raises, or returns None (lines 103-108)
ProbeFails(t) ==
    \E out \in ProbeFailures :
        /\ pc[t] = "probe"
        /\ trace' = [trace EXCEPT ![t].probed = TRUE]
        /\ Fail(t, IF out = "DownloadError" THEN DownloadErr
                   ELSE IF out = "Exception" THEN Unexpected ELSE NoInfo)
        /\ UNCHANGED <<stored, arg, loc, raised, files, clock, ncalls, lastCb, rest>>

\* line 101: the probe returns an info dict
ProbeReturns(t, infos) ==
    \E info \in infos :
        /\ pc[t] = "probe"
        /\ trace' = [trace EXCEPT ![t].probed = TRUE, ![t].info = TRUE]
        /\ loc' = [loc EXCEPT ![t].info = Some(info)]
        /\ Goto(t, "gate")
        /\ UNCHANGED <<stored, arg, ret, raised, files, clock, ncalls, lastCb, rest>>

\* lines 111-117; line 120 is next
Gate(t) ==
    LET duration == Get(Val(loc[t].info), "duration", Some(0))
        verdict  == DurationGate(config.max_duration, duration)
    IN  /\ pc[t] = "gate"
        /\ IF verdict = "pass"
           THEN /\ loc' = [loc EXCEPT ![t].duration = Some(duration),
                                      ![t].rep = Some(Report(Pct(5), "start", "call"))]
                /\ trace' = [trace EXCEPT ![t].gate = TRUE]
                /\ Goto(t, "report")
                /\ UNCHANGED ret
           ELSE /\ loc' = [loc EXCEPT ![t].duration = Some(duration)]
                /\ Fail(t, IF verdict = "error" THEN Unexpected
                           ELSE TooLong(Val(duration), Val(config.max_duration)))
                /\ UNCHANGED trace
        /\ UNCHANGED <<stored, arg, raised, files, clock, ncalls, lastCb, rest>>

\* line 121: ydl.download([url]) is issued
IssueDownload(t) ==
    /\ pc[t] = "call"
    /\ trace' = [trace EXCEPT ![t].started = TRUE]
    /\ Goto(t, "download")
    /\ UNCHANGED <<stored, arg, loc, ret, raised, files, clock, ncalls, lastCb, rest>>

\* lines 174-181: the external tool calls _progress_hook with a 'downloading'
\* event, any number of times during a transfer; comparing a None total with 0
\* is a TypeError, and a total of 0 reports nothing
HookDownloading(t, events) ==
    \E ev \in events :
        LET total == HookTotal(ev) IN
        /\ pc[t] = "download"
        /\ IF total = None
           THEN Fail(t, Unexpected) /\ UNCHANGED loc
           ELSE IF Val(total) > 0
           THEN /\ loc' = [loc EXCEPT ![t].rep = Some(Report(HookProgress(ev.downloaded_bytes, Val(total)),
                                                             "downloading", "download"))]
                /\ Goto(t, "report")
                /\ UNCHANGED ret
           ELSE UNCHANGED <<pc, ret, loc>>
        /\ UNCHANGED <<stored, arg, raised, trace, files, clock, ncalls, lastCb, rest>>

\* lines 183-184: the external tool calls _progress_hook with the 'finished' event
HookFinished(t) ==
    /\ pc[t] = "download"
    /\ loc' = [loc EXCEPT ![t].rep = Some(Report(Pct(90), "finished", "convert"))]
    /\ Goto(t, "report")
    /\ UNCHANGED <<stored, arg, ret, raised, trace, files, clock, ncalls, lastCb, rest>>

\* the files one transfer may leave: the one the template names, or another
Outputs(info) == {[stem |-> st, ext |-> e] : st \in {PrepareStem(info), "other"}, e \in Exts}

\* line 121: ydl.download returns, having written no file or one file
DownloadReturns(t, expectedOnly) ==
    /\ pc[t] \in {"download", "convert"}
    /\ \E w \in {None} \cup {Some(f) : f \in IF expectedOnly
                                              THEN {[stem |-> PrepareStem(Val(loc[t].info)),
                                                     ext |-> config.audio_format]}
                                              ELSE Outputs(Val(loc[t].info))} :
        /\ IF w = None
           THEN UNCHANGED <<files, clock, trace>>
           ELSE /\ files' = Written(files, Val(w), clock)
                /\ clock' = clock + 1
                /\ trace' = [trace EXCEPT ![t].wrote = TRUE]
        /\ Goto(t, "locate")
        /\ UNCHANGED <<stored, arg, loc, ret, raised, ncalls, lastCb, rest>>

\* line 121: ydl.download raises; lines 159-170
DownloadRaises(t) ==
    \E e \in {DownloadErr, Unexpected} :
        /\ pc[t] \in {"download", "convert"}
        /\ Fail(t, e)
        /\ UNCHANGED <<stored, arg, loc, raised, trace, files, clock, ncalls, lastCb, rest>>

\* lines 124-128: the expected path, and whether it exists; line 142 is next
Locate(t) ==
    LET info     == Val(loc[t].info)
        expected == [stem |-> PrepareStem(info), ext |-> config.audio_format]
    IN  /\ pc[t] = "locate"
        /\ IF Exists(files, expected)
           THEN /\ loc' = [loc EXCEPT ![t].title = Some(Get(info, "title", Some("unknown"))),
                                      ![t].expected = Some(expected),
                                      ![t].expected_path = Some(expected),
                                      ![t].via = "expected",
                                      ![t].rep = Some(Report(Pct(100), "complete", "result"))]
                /\ Goto(t, "report")
           ELSE /\ loc' = [loc EXCEPT ![t].title = Some(Get(info, "title", Some("unknown"))),
                                      ![t].expected = Some(expected)]
                /\ Goto(t, "glob")
        /\ UNCHANGED <<stored, arg, ret, raised, trace, files, clock, ncalls, lastCb, rest>>

\* lines 130-140: the newest file with the format's extension; line 142 is next
Glob(t) ==
    LET possible_files == GlobMatches(files, config.audio_format) IN
    /\ pc[t] = "glob"
    /\ IF possible_files = {}
       THEN /\ loc' = [loc EXCEPT ![t].via = "none"]
            /\ Fail(t, NotFound)
       ELSE \E f \in Newest(possible_files) :
            /\ loc' = [loc EXCEPT ![t].expected_path = Some(Path(f)),
                                  ![t].via = "glob",
                                  ![t].seen = possible_files,
                                  ![t].rep = Some(Report(Pct(100), "complete", "result"))]
            /\ Goto(t, "report")
            /\ UNCHANGED ret
    /\ UNCHANGED <<stored, arg, raised, trace, files, clock, ncalls, lastCb, rest>>

\* lines 144-157: slicing a None description is a TypeError
BuildResult(t) ==
    /\ pc[t] = "result"
    /\ IF Get(Val(loc[t].info), "description", Some("")) = None
       THEN Fail(t, Unexpected)
       ELSE Return(t, Success(arg[t].url, Val(loc[t].expected_path), Val(loc[t].title),
                              Val(loc[t].duration)))
    /\ UNCHANGED <<stored, arg, loc, raised, trace, files, clock, ncalls, lastCb, rest>>

-----------------------------------------------------------------------------
(* Specifications                                                          *)

InitRest == vUrl = [lead |-> <<>>, scheme |-> <<>>, sub |-> <<>>, host |-> <<>>,
                    ident |-> <<>>, tail |-> <<>>]
            /\ vResult = None /\ opts = <<>> /\ other = None

\* the download workflow, one call after another on one backend instance, with
\* everything the file system, the external tool and the callback can do
Init == InitDl /\ config \in DlConfigs /\ InitRest

Step(t) ==
    \/ Enter(t, DlUrls) \/ Validate(t) \/ Mkdir(t) \/ BuildOpts(t) \/ OpenYdl(t)
    \/ ReportCheck(t) \/ Invoke(t) \/ ProbeFails(t) \/ ProbeReturns(t, Infos) \/ Gate(t)
    \/ IssueDownload(t) \/ HookDownloading(t, Events) \/ HookFinished(t)
    \/ DownloadReturns(t, FALSE) \/ DownloadRaises(t) \/ Locate(t) \/ Glob(t)
    \/ BuildResult(t)

Next == Step(1)

Spec == Init /\ [][Next]_vars

\* the same workflow with the calls of two threads overlapping on the one
\* instance, for one probed video and one 'downloading' event
OneInfo == {MkInfo(<<Some("t")>>, <<Some(1)>>, Some("d"))}
OneEvent == {[total_bytes |-> Some(TotalBytes), total_bytes_estimate |-> <<>>,
              downloaded_bytes |-> 1]}

StepOverlap(t) ==
    \/ Enter(t, {UrlWatch}) \/ Validate(t) \/ Mkdir(t) \/ BuildOpts(t) \/ OpenYdl(t)
    \/ ReportCheck(t) \/ Invoke(t) \/ ProbeFails(t) \/ ProbeReturns(t, OneInfo) \/ Gate(t)
    \/ IssueDownload(t) \/ HookDownloading(t, OneEvent) \/ HookFinished(t)
    \/ DownloadReturns(t, TRUE) \/ DownloadRaises(t) \/ Locate(t) \/ Glob(t)
    \/ BuildResult(t)

NextOverlap == \E t \in Threads : StepOverlap(t)

SpecOverlap == Init /\ [][NextOverlap]_vars

\* validate_url applied to one url string
NextUrl == ValidateUrl /\ UNCHANGED <<config, cfgVars, dlVars>>
InitUrlSpec ==
    /\ vUrl \in UrlParts /\ vResult = None
    /\ config = PRESET_TRANSCRIPTION /\ opts = <<>> /\ other = None
    /\ stored = None
    /\ pc = [t \in Threads |-> "idle"]
    /\ arg = [t \in Threads |-> NoArgs]
    /\ loc = [t \in Threads |-> NoLocals]
    /\ ret = [t \in Threads |-> None]
    /\ raised = [t \in Threads |-> FALSE]
    /\ trace = [t \in Threads |-> NoTrace]
    /\ files = {} /\ clock = 1 /\ ncalls = 0 /\ lastCb = None
SpecUrl == InitUrlSpec /\ [][NextUrl]_vars

\* to_yt_dlp_opts applied to one config
NextCfg == (Render \/ RewriteReturned \/ RenderOther) /\ UNCHANGED <<urlVars, dlVars>>
InitCfgSpec ==
    /\ config \in Configs /\ opts = <<>> /\ other = None
    /\ vUrl = [lead |-> <<>>, scheme |-> <<>>, sub |-> <<>>, host |-> <<>>,
               ident |-> <<>>, tail |-> <<>>]
    /\ vResult = None
    /\ stored = None
    /\ pc = [t \in Threads |-> "idle"]
    /\ arg = [t \in Threads |-> NoArgs]
    /\ loc = [t \in Threads |-> NoLocals]
    /\ ret = [t \in Threads |-> None]
    /\ raised = [t \in Threads |-> FALSE]
    /\ trace = [t \in Threads |-> NoTrace]
    /\ files = {} /\ clock = 1 /\ ncalls = 0 /\ lastCb = None
SpecCfg == InitCfgSpec /\ [][NextCfg]_vars

-----------------------------------------------------------------------------
(* Properties                                                              *)

Returned(t) == ret[t] # None
Result(t) == Val(ret[t])
Kind(t) == Val(Result(t).error_message).kind
Quiescent == \A t \in Threads : pc[t] = "idle"

\* C1: download() never raises: whatever the file system, the external tool
\* and the callback do, no exception leaves the call.
C1_NeverRaises == \A t \in Threads : ~raised[t]

\* C2: every DownloadResult pairs its fields: on success file_path, title and
\* duration are populated and error_message is none; on failure error_message
\* is populated and file_path, title and duration are none.
C2_Pairing ==
    \A t \in Threads : Returned(t) =>
        IF Result(t).success
        THEN /\ Result(t).file_path # None
             /\ Result(t).title # None
             /\ Result(t).duration # None
             /\ Result(t).error_message = None
        ELSE /\ Result(t).error_message # None
             /\ Result(t).file_path = None
             /\ Result(t).title = None
             /\ Result(t).duration = None

\* the probe returned a duration above the configured max_duration
Exceeds(t) ==
    /\ loc[t].info # None
    /\ config.max_duration # None
    /\ "duration" \in DOMAIN Val(loc[t].info)
    /\ Val(loc[t].info)["duration"] # None
    /\ Val(Val(loc[t].info)["duration"]) > Val(config.max_duration)

\* C3: the transfer is issued only after the probe returned info and the
\* duration gate passed; when max_duration is set and the probed duration
\* exceeds it, the transfer is never issued, the call writes no file, and it
\* returns the failure that states the actual and the allowed duration.
C3_ProbeGateTransfer ==
    \A t \in Threads :
        /\ trace[t].started => trace[t].info /\ trace[t].gate
        /\ trace[t].wrote => trace[t].started
        /\ Exceeds(t) =>
            /\ ~trace[t].started
            /\ ~trace[t].wrote
            /\ pc[t] = "idle" =>
                ret[t] = Some(Failure(arg[t].url,
                                      TooLong(Val(Val(loc[t].info)["duration"]),
                                              Val(config.max_duration))))

C3_Rejected ==
    \E t \in Threads : Exceeds(t) /\ Returned(t) /\ ~Result(t).success

\* C4: a call whose url fails validate_url returns the invalid-URL failure
\* and issues neither the probe nor the transfer.
C4_InvalidUrlFailsFast ==
    \A t \in Threads : (arg[t].id > 0 /\ ~validate_url(arg[t].url)) =>
        /\ ~trace[t].probed
        /\ ~trace[t].started
        /\ ~raised[t]
        /\ loc[t].ydl_opts = None
        /\ pc[t] \in {"validate", "idle"}
        /\ pc[t] = "idle" => ret[t] = Some(Failure(arg[t].url, InvalidUrl(arg[t].url)))

C4_InvalidReturned ==
    \E t \in Threads : Returned(t) /\ ~validate_url(arg[t].url) /\ ~Result(t).success

\* lo <= p <= hi for a fraction p with a positive denominator
Within(p, lo, hi) == lo * p.den <= p.num /\ p.num <= hi * p.den

\* C5: every percentage passed to the callback lies in [0,100]; one relayed
\* from a 'downloading' event lies in 5..90; a 'finished' event is exactly 90.
C5_PercentInRange ==
    (lastCb # None /\ Val(lastCb).to # None) =>
        /\ Within(Val(lastCb).pct, 0, 100)
        /\ Val(lastCb).src = "downloading" => Within(Val(lastCb).pct, 5, 90)
        /\ Val(lastCb).src = "finished" => Val(lastCb).pct = Pct(90)

\* C6: a progress report of a call reaches a callback other than the call's
\* own (or none, though the call has one) only if a later call began on the
\* instance while the reporting call was in progress; with no overlap every
\* report goes to the reporting call's own callback.
C6_MisdeliveryOnlyByOverlap ==
    lastCb # None =>
        (Val(lastCb).to # Val(lastCb).own => Val(lastCb).by < Val(lastCb).newest)

C6_Misdelivered ==
    /\ lastCb # None
    /\ Val(lastCb).own # None
    /\ Val(lastCb).to # None
    /\ Val(lastCb).to # Val(lastCb).own

AcceptedHead(u) ==
    /\ u.lead = <<>>
    /\ u.scheme \in {<<>>, Http, Https}
    /\ u.sub \in {<<>>, Www}
    /\ u.host \in {WatchHost, ShortHost, ShortsHost, LiveHost}
IdentOk(u) == Len(u.ident) = IdLen /\ \A i \in 1..IdLen : u.ident[i] \in IdClass
AcceptedForm(u) == AcceptedHead(u) /\ IdentOk(u) /\ u.tail = <<>>
UnrelatedDomain(u) == u.host \in {VimeoHost, ExampleHost}
\* neither an accepted form nor one followed by a further query parameter
Malformed(u) == ~(AcceptedHead(u) /\ IdentOk(u) /\ u.tail \in {<<>>, <<"&","t","=","1">>})
\* what follows the host begins with IdLen identifier characters
BeginsWithIdent(u) ==
    LET after == u.ident \o u.tail IN
    Len(after) >= IdLen /\ \A i \in 1..IdLen : after[i] \in IdClass

\* C8 as stated: validate_url is true for the accepted forms and false for
\* every URL of an unrelated domain and every malformed string.
C8_AcceptsFormsRejectsRest ==
    vResult # None =>
        /\ AcceptedForm(vUrl) => Val(vResult)
        /\ (UnrelatedDomain(vUrl) \/ Malformed(vUrl)) => ~Val(vResult)

\* C8 amended: validate_url is true exactly when the url begins with an
\* accepted form, whatever follows the 11th identifier character; it is false
\* for every URL of an unrelated domain.
C8_TrueIffBeginsWithForm ==
    vResult # None =>
        /\ Val(vResult) <=> (AcceptedHead(vUrl) /\ BeginsWithIdent(vUrl))
        /\ AcceptedForm(vUrl) => Val(vResult)
        /\ UnrelatedDomain(vUrl) => ~Val(vResult)

C8_AcceptedWithTrailingText ==
    vResult = Some(TRUE) /\ AcceptedHead(vUrl) /\ IdentOk(vUrl) /\ vUrl.tail # <<>>

\* the two structures agree on every key but 'postprocessor_args'
SameButArgs(a, b) ==
    \A k \in (DOMAIN a \cup DOMAIN b) \ {"postprocessor_args"} :
        k \in DOMAIN a /\ k \in DOMAIN b /\ a[k] = b[k]

\* the argument list a config must render to: "-ar <rate>" before "-ac 1"
ArgsOf(c) ==
    IF c.sample_rate # None /\ c.mono THEN <<"-ar", ToString(Val(c.sample_rate)), "-ac", "1">>
    ELSE IF c.sample_rate # None THEN <<"-ar", ToString(Val(c.sample_rate))>>
    ELSE IF c.mono THEN <<"-ac", "1">>
    ELSE <<>>

HasArgs(o, c) ==
    IF ArgsOf(c) = <<>> THEN "postprocessor_args" \notin DOMAIN o
    ELSE "postprocessor_args" \in DOMAIN o /\ o["postprocessor_args"] = [ffmpeg |-> ArgsOf(c)]

NewestCallback == IF ncalls = 0 THEN None ELSE arg[CHOOSE t \in Threads : arg[t].id = ncalls].cb

\* C10 as stated: whenever no call is in progress the stored callback
\* reference is empty.
C10_EmptyBetweenCalls == Quiescent => stored = None

\* C10 amended: after construction the stored reference is empty; each call
\* replaces it at entry and nothing clears it, so whenever no call is in
\* progress it is the callback argument of the call that began last.
C10_HoldsNewestArgument == Quiescent => stored = NewestCallback

C10_RetainedAfterReturn ==
    Quiescent /\ ncalls > 0 /\ stored # None /\ \E t \in Threads : Returned(t) /\ arg[t].cb = stored

=============================================================================
